---------------------------- MODULE Spec2Model ----------------------------
(***************************************************************************)
(* Planning permission decision logic (planning_permission.py).            *)
(*                                                                         *)
(* The module models                                                       *)
(*   - get_planning_permission_decision, the three-step decision function, *)
(*     as an operator built from one operator per step of the code;        *)
(*   - a direct caller of that function (specification Spec);              *)
(*   - the interactive loop prompt_user_for_input with get_numeric_choice  *)
(*     and get_yes_no (specification LoopSpec);                            *)
(*   - several callers running the function at the same time, each call    *)
(*     stepping through the three steps on its own frame of parameters and *)
(*     local variables (specification CallsSpec).                          *)
(*                                                                         *)
(* A Python str is modelled as a sequence of one-character strings, so     *)
(* that str.lower() and int() are computed character by character. The     *)
(* location and height arguments are only ever compared for equality by    *)
(* the code and are kept as atomic strings, and so are printed messages.   *)
(***************************************************************************)
EXTENDS Integers, Sequences, FiniteSets, TLC

VARIABLES
    request,    \* the keyword arguments of one direct call of the function
    result,     \* what that call returned, or Pending before it returns
    pc,         \* prompt_user_for_input: the statement it is at
    answers,    \* prompt_user_for_input: its local variables assigned so far
    choices,    \* what get_numeric_choice returned for each of them
    collected,  \* the names of those variables, in the order assigned
    gnc,        \* the running (or last finished) call of get_numeric_choice
    stdout,     \* the lines print() has written
    passed,     \* the keyword arguments the loop passed to the function
    decision,   \* prompt_user_for_input: its local variable decision
    calls,      \* how often the loop has called the function
    at,         \* concurrent callers: the step each caller's call is at
    frames,     \* the parameters and locals of the calls in progress
    asked,      \* the arguments each caller gave to its call in progress
    history,    \* the finished calls: arguments given, result received
    ncalls      \* how many calls the callers have started

directVars == <<request, result>>

loopVars == <<pc, answers, choices, collected, gnc, stdout, passed, decision, calls>>

callVars == <<at, frames, asked, history, ncalls>>

vars == <<request, result, pc, answers, choices, collected, gnc, stdout, passed, decision, calls, at, frames, asked, history, ncalls>>

\* How many invalid entries the user types at one prompt, at most.
MaxRetries == 2

\* How many callers run the function at the same time.
NumCallers == 2

\* How many calls the concurrent callers make in all, at most.
MaxCalls == 3

Pending == "pending"

-----------------------------------------------------------------------------
(* Python strings and str.lower() *)

UpperCase ==
    << "A", "B", "C", "D", "E", "F", "G", "H", "I", "J", "K", "L", "M",
       "N", "O", "P", "Q", "R", "S", "T", "U", "V", "W", "X", "Y", "Z" >>

LowerCase ==
    << "a", "b", "c", "d", "e", "f", "g", "h", "i", "j", "k", "l", "m",
       "n", "o", "p", "q", "r", "s", "t", "u", "v", "w", "x", "y", "z" >>

lower_char(c) ==
    IF \E i \in DOMAIN UpperCase : UpperCase[i] = c
    THEN LowerCase[CHOOSE i \in DOMAIN UpperCase : UpperCase[i] = c]
    ELSE c

\* str.lower(): every cased character replaced by its lower-case form.
lower(s) == [i \in 1..Len(s) |-> lower_char(s[i])]

\* The three literals the code compares the lower-cased structure with.
FENCE == << "f", "e", "n", "c", "e" >>

WALL == << "w", "a", "l", "l" >>

GATE == << "g", "a", "t", "e" >>

-----------------------------------------------------------------------------
(* Argument domains of the direct caller.  The signature only asks for str *)
(* and bool, so the domains hold the documented values and also strings    *)
(* outside them.                                                           *)

StructureEnum == { FENCE, WALL, GATE }

StructureValues ==
    StructureEnum \cup
        { << "F", "e", "n", "c", "e" >>,
          << "W", "A", "L", "L" >>,
          << "G", "a", "t", "E" >>,
          << "h", "e", "d", "g", "e" >>,
          << >> }

LocationEnum == { "adjacent", "not_adjacent" }

LocationValues == LocationEnum \cup { "Adjacent" }

HeightEnum == { "up_to_1m", "above_1m", "up_to_2m", "above_2m" }

HeightValues == HeightEnum \cup { "UP_TO_1M" }

Requests ==
    [ location_of_enclosure : LocationValues,
      height_of_enclosure : HeightValues,
      structure_type : StructureValues,
      listed_building : BOOLEAN,
      article_2_3_land : BOOLEAN,
      article_2_4_land : BOOLEAN,
      article_4_directive : BOOLEAN,
      aonb : BOOLEAN,
      works_affecting_tpo : BOOLEAN,
      face_listed_building : BOOLEAN,
      new_build_property : BOOLEAN,
      pd_removed_by_previous_planning : BOOLEAN ]

-----------------------------------------------------------------------------
(* get_planning_permission_decision *)

\* universal_flags with the 2U9 entry left out of the list.
universal_flags_without_2U9(listed_building, article_2_3_land, article_2_4_land, article_4_directive, aonb, works_affecting_tpo, face_listed_building) ==
    << listed_building, article_2_3_land, article_2_4_land,
       article_4_directive, aonb, works_affecting_tpo >>

\* Step 1: the list the code builds from the seven universal arguments.
universal_flags(listed_building, article_2_3_land, article_2_4_land, article_4_directive, aonb, works_affecting_tpo, face_listed_building) ==
    << listed_building, article_2_3_land, article_2_4_land,
       article_4_directive, aonb, works_affecting_tpo, face_listed_building >>

\* The builtin any() over a list of booleans.
any(flags) == \E i \in DOMAIN flags : flags[i]

\* gate_baseline with the new-build test dropped: gates always permitted.
gate_baseline_always_permitted(new_build_property) == "N"

\* gate_baseline with the test negated.
gate_baseline_inverted(new_build_property) ==
    IF new_build_property THEN "N" ELSE "Y"

\* Step 2, gate branch.
gate_baseline(new_build_property) ==
    IF new_build_property THEN "Y" ELSE "N"

\* fence_baseline with the adjacent test comparing against "up_to_2m", so an
\* adjacent fence is permitted at the wrong height category.
fence_baseline_adjacent_up_to_2m(location_of_enclosure, height_of_enclosure) ==
    IF location_of_enclosure = "adjacent"
    THEN IF height_of_enclosure = "up_to_2m" THEN "N" ELSE "Y"
    ELSE IF height_of_enclosure = "above_2m" THEN "Y" ELSE "N"

\* fence_baseline with the not-adjacent branch also requiring permission for
\* "up_to_2m".
fence_baseline_not_adjacent_2m(location_of_enclosure, height_of_enclosure) ==
    IF location_of_enclosure = "adjacent"
    THEN IF height_of_enclosure = "up_to_1m" THEN "N" ELSE "Y"
    ELSE IF height_of_enclosure \in { "up_to_2m", "above_2m" }
         THEN "Y" ELSE "N"

\* fence_baseline with the rules of the two locations exchanged.
fence_baseline_locations_swapped(location_of_enclosure, height_of_enclosure) ==
    IF location_of_enclosure = "adjacent"
    THEN IF height_of_enclosure = "above_2m" THEN "Y" ELSE "N"
    ELSE IF height_of_enclosure = "up_to_1m" THEN "N" ELSE "Y"

\* Step 2, fence branch.
fence_baseline(location_of_enclosure, height_of_enclosure) ==
    IF location_of_enclosure = "adjacent"
    THEN IF height_of_enclosure = "up_to_1m" THEN "N" ELSE "Y"
    ELSE IF height_of_enclosure = "above_2m" THEN "Y" ELSE "N"

\* wall_baseline with the comparison inverted.
wall_baseline_inverted(height_of_enclosure) ==
    IF height_of_enclosure # "above_2m" THEN "Y" ELSE "N"

\* Step 2, wall branch.
wall_baseline(height_of_enclosure) ==
    IF height_of_enclosure = "above_2m" THEN "Y" ELSE "N"

\* other_baseline failing closed instead of open.
other_baseline_required == "Y"

\* Step 2, final else branch: a structure that is none of the three.
other_baseline == "N"

\* baseline_of with the new-build restriction applied to every structure
\* instead of inside the gate branch.
baseline_of_new_build_everywhere(location_of_enclosure, height_of_enclosure, structure_type, new_build_property) ==
    LET structure == lower(structure_type)
    IN  IF new_build_property
        THEN "Y"
        ELSE IF structure = GATE
        THEN "N"
        ELSE IF structure = FENCE
        THEN fence_baseline(location_of_enclosure, height_of_enclosure)
        ELSE IF structure = WALL
        THEN wall_baseline(height_of_enclosure)
        ELSE other_baseline

\* Step 2 as a whole: structure = structure_type.lower(), then the if/elif
\* chain that assigns baseline.
baseline_of(location_of_enclosure, height_of_enclosure, structure_type, new_build_property) ==
    LET structure == lower(structure_type)
    IN  IF structure = GATE
        THEN gate_baseline(new_build_property)
        ELSE IF structure = FENCE
        THEN fence_baseline(location_of_enclosure, height_of_enclosure)
        ELSE IF structure = WALL
        THEN wall_baseline(height_of_enclosure)
        ELSE other_baseline

\* apply_modifiers with the override missing.
apply_modifiers_without_override(baseline, pd_removed_by_previous_planning) ==
    baseline

\* Step 3: the modifier that overrides the baseline.
apply_modifiers(baseline, pd_removed_by_previous_planning) ==
    IF pd_removed_by_previous_planning THEN "Y" ELSE baseline

get_planning_permission_decision(location_of_enclosure, height_of_enclosure, structure_type, listed_building, article_2_3_land, article_2_4_land, article_4_directive, aonb, works_affecting_tpo, face_listed_building, new_build_property, pd_removed_by_previous_planning) ==
    IF any(universal_flags(listed_building, article_2_3_land,
                           article_2_4_land, article_4_directive, aonb,
                           works_affecting_tpo, face_listed_building))
    THEN "Y"
    ELSE apply_modifiers(
             baseline_of(location_of_enclosure, height_of_enclosure,
                         structure_type, new_build_property),
             pd_removed_by_previous_planning)

\* Decide with the values of the two modifier arguments exchanged.
Decide_modifiers_swapped(r) ==
    get_planning_permission_decision(
        r.location_of_enclosure, r.height_of_enclosure, r.structure_type,
        r.listed_building, r.article_2_3_land, r.article_2_4_land,
        r.article_4_directive, r.aonb, r.works_affecting_tpo,
        r.face_listed_building, r.pd_removed_by_previous_planning,
        r.new_build_property)

\* The function applied to a record of keyword arguments.
Decide(r) ==
    get_planning_permission_decision(
        r.location_of_enclosure, r.height_of_enclosure, r.structure_type,
        r.listed_building, r.article_2_3_land, r.article_2_4_land,
        r.article_4_directive, r.aonb, r.works_affecting_tpo,
        r.face_listed_building, r.new_build_property,
        r.pd_removed_by_previous_planning)

-----------------------------------------------------------------------------
(* int(): the conversion get_numeric_choice applies to what the user typed *)

Digits == << "0", "1", "2", "3", "4", "5", "6", "7", "8", "9" >>

is_digit(c) == \E i \in DOMAIN Digits : Digits[i] = c

digit_value(c) == (CHOOSE i \in DOMAIN Digits : Digits[i] = c) - 1

is_space(c) == c \in { " ", "\t", "\n" }

RECURSIVE lstrip(_)
lstrip(s) ==
    IF s # << >> /\ is_space(Head(s)) THEN lstrip(Tail(s)) ELSE s

RECURSIVE rstrip(_)
rstrip(s) ==
    IF s # << >> /\ is_space(s[Len(s)])
    THEN rstrip(SubSeq(s, 1, Len(s) - 1))
    ELSE s

\* The decimal value of a non-empty sequence of digits.
RECURSIVE digits_value(_)
digits_value(ds) ==
    IF ds = << >>
    THEN 0
    ELSE 10 * digits_value(SubSeq(ds, 1, Len(ds) - 1)) + digit_value(ds[Len(ds)])

\* What int() does on a string it cannot convert.
ValueError == [ ok |-> FALSE, value |-> 0 ]

\* int(s) for a str s: surrounding whitespace is dropped, one sign is
\* allowed, and what remains must be decimal digits.
int(s) ==
    LET t == rstrip(lstrip(s))
        signed == t # << >> /\ t[1] \in { "+", "-" }
        body == IF signed THEN Tail(t) ELSE t
    IN  IF body = << >> \/ \E i \in DOMAIN body : ~is_digit(body[i])
        THEN ValueError
        ELSE [ ok |-> TRUE,
               value |-> IF signed /\ t[1] = "-"
                         THEN 0 - digits_value(body)
                         ELSE digits_value(body) ]

\* What the user may type at a prompt.
Entries ==
    { << "1" >>, << "2" >>, << "3" >>, << "4" >>, << "5" >>,
      << " ", "2", " " >>, << "+", "1" >>,
      << >>, << "y" >>, << "1", ".", "0" >> }

-----------------------------------------------------------------------------
(* get_numeric_choice and get_yes_no *)

\* get_yes_no: valid = {1: True, 2: False}
yes_no == (1 :> TRUE) @@ (2 :> FALSE)

structure_choices == (1 :> FENCE) @@ (2 :> WALL) @@ (3 :> GATE)

location_choices == (1 :> "adjacent") @@ (2 :> "not_adjacent")

height_choices ==
    (1 :> "up_to_1m") @@ (2 :> "above_1m") @@ (3 :> "up_to_2m") @@
    (4 :> "above_2m")

\* The variables prompt_user_for_input assigns from user input, in order.
FieldOrder ==
    << "listed_building", "article_2_3_land", "article_2_4_land",
       "article_4_directive", "aonb", "works_affecting_tpo",
       "face_listed_building", "structure_type", "location_of_enclosure",
       "height_of_enclosure", "new_build_property",
       "pd_removed_by_previous_planning" >>

UniversalFields == { FieldOrder[i] : i \in 1..7 }

YesNoFields ==
    UniversalFields \cup
        { "new_build_property", "pd_removed_by_previous_planning" }

\* The dictionary passed as valid_choices when asking for a variable.
valid_choices_for(field) ==
    IF field \in YesNoFields THEN yes_no
    ELSE IF field = "structure_type" THEN structure_choices
    ELSE IF field = "location_of_enclosure" THEN location_choices
    ELSE height_choices

\* No call of get_numeric_choice is running or waiting to be used.
NoCall ==
    [ state |-> "none", prompt |-> "", valid_choices |-> << >>,
      entries |-> << >>, errors |-> << >>, prompts |-> 0, choice |-> 0 ]

\* get_numeric_choice entered: the prompt is shown and input() waits.
begin_call(field) ==
    [ state |-> "input", prompt |-> field,
      valid_choices |-> valid_choices_for(field),
      entries |-> << >>, errors |-> << >>, prompts |-> 1, choice |-> 0 ]

\* The test "choice in valid_choices" with every integer accepted.
accepts_any_number(choice, valid_choices) == TRUE

\* The test "choice in valid_choices".
accepts(choice, valid_choices) == choice \in DOMAIN valid_choices

\* One pass of the while loop of get_numeric_choice: input() returns what the
\* user typed, int() converts it, and the function either returns the choice
\* or logs an error and shows the prompt again.
get_numeric_choice ==
    /\ gnc.state = "input"
    /\ \E entry \in Entries :
           LET n == int(entry)
           IN  IF n.ok /\ accepts(n.value, gnc.valid_choices)
               THEN gnc' = [ gnc EXCEPT !.state = "returned",
                                        !.entries = Append(@, entry),
                                        !.choice = n.value ]
               ELSE /\ Len(gnc.errors) < MaxRetries
                    /\ gnc' = [ gnc EXCEPT
                                  !.entries = Append(@, entry),
                                  !.errors =
                                      Append(@, IF n.ok
                                                THEN "Invalid choice"
                                                ELSE "Invalid input"),
                                  !.prompts = @ + 1 ]
    /\ UNCHANGED <<pc, answers, choices, collected, stdout, passed, decision, calls>>
    /\ UNCHANGED <<directVars, callVars>>

\* input() at the end of the input stream: EOFError, which nothing catches.
EndOfInput ==
    /\ gnc.state = "input"
    /\ gnc' = [ gnc EXCEPT !.state = "raised" ]
    /\ pc' = "aborted"
    /\ UNCHANGED <<answers, choices, collected, stdout, passed, decision, calls>>
    /\ UNCHANGED <<directVars, callVars>>

-----------------------------------------------------------------------------
(* prompt_user_for_input *)

None == "None"

\* The statement that follows the assignment of a variable.
after(field) ==
    IF field = "face_listed_building" THEN "early_check"
    ELSE IF field = "pd_removed_by_previous_planning" THEN "decide"
    ELSE FieldOrder[(CHOOSE i \in DOMAIN FieldOrder : FieldOrder[i] = field) + 1]

\* The two print() calls that open the dialogue, then the first question.
Welcome ==
    /\ pc = "start"
    /\ stdout' = << "Welcome to the PlanningHub Code Challenge!",
                    "Enter the details for the planning permission check.\n" >>
    /\ pc' = "listed_building"
    /\ gnc' = begin_call("listed_building")
    /\ UNCHANGED <<answers, choices, collected, passed, decision, calls>>
    /\ UNCHANGED <<directVars, callVars>>

\* An assignment var = f(get_numeric_choice(...)) completing with `value`,
\* and control moving on to the next statement.
assign(field, value) ==
    /\ pc = field
    /\ gnc.state = "returned"
    /\ answers' = answers @@ (field :> value)
    /\ choices' = choices @@ (field :> gnc.choice)
    /\ collected' = Append(collected, field)
    /\ pc' = after(field)
    /\ gnc' = IF after(field) \in { "early_check", "decide" }
              THEN NoCall
              ELSE begin_call(after(field))
    /\ UNCHANGED <<stdout, passed, decision, calls>>
    /\ UNCHANGED <<directVars, callVars>>

\* get_yes_no: return valid[get_numeric_choice(prompt, valid)]
get_yes_no(field) ==
    /\ field \in YesNoFields
    /\ pc = field
    /\ gnc.state = "returned"
    /\ assign(field, yes_no[gnc.choice])

\* early_flags reading the first flag only.
early_flags_first_only(a) == << a.listed_building >>

\* The list the early universal check passes to any().
early_flags(a) ==
    << a.listed_building, a.article_2_3_land, a.article_2_4_land,
       a.article_4_directive, a.aonb, a.works_affecting_tpo,
       a.face_listed_building >>

\* Early universal check: print the outcome and return, or go on asking.
EarlyUniversalCheck ==
    /\ pc = "early_check"
    /\ IF any(early_flags(answers))
       THEN /\ stdout' = stdout \o
                  << "\nOne or more universal conditions are met.",
                     "Result: Planning permission is required (Y)." >>
            /\ pc' = "done"
            /\ gnc' = gnc
       ELSE /\ stdout' = stdout
            /\ pc' = "structure_type"
            /\ gnc' = begin_call("structure_type")
    /\ UNCHANGED <<answers, choices, collected, passed, decision, calls>>
    /\ UNCHANGED <<directVars, callVars>>

AskStructure ==
    /\ pc = "structure_type"
    /\ gnc.state = "returned"
    /\ assign("structure_type", structure_choices[gnc.choice])

AskLocation ==
    /\ pc = "location_of_enclosure"
    /\ gnc.state = "returned"
    /\ assign("location_of_enclosure", location_choices[gnc.choice])

AskHeight ==
    /\ pc = "height_of_enclosure"
    /\ gnc.state = "returned"
    /\ assign("height_of_enclosure", height_choices[gnc.choice])

\* decision = get_planning_permission_decision(...keyword arguments...)
CallDecision ==
    /\ pc = "decide"
    /\ passed' = answers
    /\ decision' = Decide(answers)
    /\ calls' = calls + 1
    /\ pc' = "display"
    /\ UNCHANGED <<answers, choices, collected, gnc, stdout>>
    /\ UNCHANGED <<directVars, callVars>>

\* print("\nResult: Planning permission required: " + decision)
DisplayDecision ==
    /\ pc = "display"
    /\ stdout' = Append(stdout,
                        "\nResult: Planning permission required: " \o decision)
    /\ pc' = "done"
    /\ UNCHANGED <<answers, choices, collected, gnc, passed, decision, calls>>
    /\ UNCHANGED <<directVars, callVars>>

\* No concurrent caller is running.
CallsIdle ==
    /\ at = << >>
    /\ frames = << >>
    /\ asked = << >>
    /\ history = { }
    /\ ncalls = 0

\* The loop is not running.
LoopIdle ==
    /\ pc = "idle"
    /\ answers = << >>
    /\ choices = << >>
    /\ collected = << >>
    /\ gnc = NoCall
    /\ stdout = << >>
    /\ passed = None
    /\ decision = None
    /\ calls = 0

LoopInit ==
    /\ pc = "start"
    /\ answers = << >>
    /\ choices = << >>
    /\ collected = << >>
    /\ gnc = NoCall
    /\ stdout = << >>
    /\ passed = None
    /\ decision = None
    /\ calls = 0
    /\ request = None
    /\ result = Pending
    /\ CallsIdle

LoopNext ==
    \/ Welcome
    \/ get_numeric_choice
    \/ EndOfInput
    \/ \E field \in YesNoFields : get_yes_no(field)
    \/ EarlyUniversalCheck
    \/ AskStructure
    \/ AskLocation
    \/ AskHeight
    \/ CallDecision
    \/ DisplayDecision

LoopSpec == LoopInit /\ [][LoopNext]_vars

-----------------------------------------------------------------------------
(* Concurrent callers of get_planning_permission_decision.  A call runs the *)
(* three steps of the function one after the other on its frame.            *)

Callers == 1..NumCallers

\* The arguments the concurrent callers choose from.
BaseRequest ==
    [ location_of_enclosure |-> "adjacent",
      height_of_enclosure |-> "up_to_1m",
      structure_type |-> FENCE,
      listed_building |-> FALSE,
      article_2_3_land |-> FALSE,
      article_2_4_land |-> FALSE,
      article_4_directive |-> FALSE,
      aonb |-> FALSE,
      works_affecting_tpo |-> FALSE,
      face_listed_building |-> FALSE,
      new_build_property |-> FALSE,
      pd_removed_by_previous_planning |-> FALSE ]

SampleRequests ==
    { BaseRequest,
      [ BaseRequest EXCEPT !.height_of_enclosure = "above_2m" ],
      [ BaseRequest EXCEPT !.structure_type = << "G", "a", "t", "E" >>,
                           !.new_build_property = TRUE ],
      [ BaseRequest EXCEPT !.aonb = TRUE ],
      [ BaseRequest EXCEPT !.structure_type = << "h", "e", "d", "g", "e" >>,
                           !.pd_removed_by_previous_planning = TRUE ] }

\* A frame no call is using.
NoFrame ==
    [ args |-> BaseRequest, universal_flags |-> << >>, structure |-> << >>,
      baseline |-> None ]

\* One frame for all calls: parameters and locals kept in module-level
\* variables.
frame_of_shared(c) == 1

\* The frame holding the parameters and local variables of caller c's call:
\* every call has its own.
frame_of(c) == c

\* The caller gets `value` back and the call's frame is gone.
return(c, value) ==
    /\ history' = history \cup { [ request |-> asked[c], result |-> value ] }
    /\ frames' = [ frames EXCEPT ![frame_of(c)] = NoFrame ]
    /\ at' = [ at EXCEPT ![c] = "idle" ]
    /\ UNCHANGED <<asked, ncalls>>

\* Caller c calls the function with arguments r.
Call(c, r) ==
    /\ at[c] = "idle"
    /\ ncalls < MaxCalls
    /\ ncalls' = ncalls + 1
    /\ asked' = [ asked EXCEPT ![c] = r ]
    /\ frames' = [ frames EXCEPT ![frame_of(c)] = [ NoFrame EXCEPT !.args = r ] ]
    /\ at' = [ at EXCEPT ![c] = "step1" ]
    /\ UNCHANGED history
    /\ UNCHANGED <<directVars, loopVars>>

\* Step 1: build universal_flags; return "Y" if any of them is true.
Step1(c) ==
    /\ at[c] = "step1"
    /\ LET a == frames[frame_of(c)].args
           flags == universal_flags(a.listed_building, a.article_2_3_land,
                                    a.article_2_4_land, a.article_4_directive,
                                    a.aonb, a.works_affecting_tpo,
                                    a.face_listed_building)
       IN  IF any(flags)
           THEN return(c, "Y")
           ELSE /\ frames' = [ frames EXCEPT
                                 ![frame_of(c)].universal_flags = flags ]
                /\ at' = [ at EXCEPT ![c] = "step2" ]
                /\ UNCHANGED <<asked, history, ncalls>>
    /\ UNCHANGED <<directVars, loopVars>>

\* Step 2: lower-case the structure and assign baseline.
Step2(c) ==
    /\ at[c] = "step2"
    /\ LET a == frames[frame_of(c)].args
       IN  frames' = [ frames EXCEPT
                         ![frame_of(c)].structure = lower(a.structure_type),
                         ![frame_of(c)].baseline =
                             baseline_of(a.location_of_enclosure,
                                         a.height_of_enclosure,
                                         a.structure_type,
                                         a.new_build_property) ]
    /\ at' = [ at EXCEPT ![c] = "step3" ]
    /\ UNCHANGED <<asked, history, ncalls>>
    /\ UNCHANGED <<directVars, loopVars>>

\* Step 3: return "Y" if PD rights were removed, the baseline otherwise.
Step3(c) ==
    /\ at[c] = "step3"
    /\ LET f == frames[frame_of(c)]
       IN  return(c, apply_modifiers(f.baseline,
                                     f.args.pd_removed_by_previous_planning))
    /\ UNCHANGED <<directVars, loopVars>>

CallsInit ==
    /\ at = [ c \in Callers |-> "idle" ]
    /\ frames = [ c \in Callers |-> NoFrame ]
    /\ asked = [ c \in Callers |-> BaseRequest ]
    /\ history = { }
    /\ ncalls = 0
    /\ request = None
    /\ result = Pending
    /\ LoopIdle

CallsNext ==
    \E c \in Callers :
        \/ \E r \in SampleRequests : Call(c, r)
        \/ Step1(c)
        \/ Step2(c)
        \/ Step3(c)

CallsSpec == CallsInit /\ [][CallsNext]_vars

-----------------------------------------------------------------------------
(* A direct caller: one call with arbitrary arguments. *)

Init ==
    /\ request \in Requests
    /\ result = Pending
    /\ LoopIdle
    /\ CallsIdle

Evaluate ==
    /\ result = Pending
    /\ result' = Decide(request)
    /\ UNCHANGED request
    /\ UNCHANGED <<loopVars, callVars>>

Next == Evaluate

Spec == Init /\ [][Next]_vars

-----------------------------------------------------------------------------
(* Properties of the decision function, checked under Spec. *)

\* The call has returned.
Returned == result # Pending

\* Some universal argument of request r is true.
SomeUniversal(r) ==
    \/ r.listed_building
    \/ r.article_2_3_land
    \/ r.article_2_4_land
    \/ r.article_4_directive
    \/ r.aonb
    \/ r.works_affecting_tpo
    \/ r.face_listed_building

\* Neither the universal step nor the modifier step decides request r.
BaselineDecides(r) ==
    ~SomeUniversal(r) /\ ~r.pd_removed_by_previous_planning

\* C1: whenever at least one of the seven universal flags is true the
\* function returns "Y", whatever the other nine arguments are.
C1_UniversalOverride ==
    (Returned /\ SomeUniversal(request)) => result = "Y"

\* C1 happens: a call returned "Y" with only face_listed_building set, on
\* arguments whose baseline is "N".
C1_Witness ==
    /\ result = "Y"
    /\ request.face_listed_building
    /\ ~request.listed_building
    /\ ~request.article_2_3_land
    /\ ~request.article_2_4_land
    /\ ~request.article_4_directive
    /\ ~request.aonb
    /\ ~request.works_affecting_tpo
    /\ request.structure_type = GATE
    /\ ~request.new_build_property
    /\ ~request.pd_removed_by_previous_planning

\* C2: with all seven universal flags false and
\* pd_removed_by_previous_planning true the function returns "Y", whatever
\* the structure type, location, height and new_build_property are.
C2_ModifierOverride ==
    (/\ Returned
     /\ ~SomeUniversal(request)
     /\ request.pd_removed_by_previous_planning) => result = "Y"

\* C2 happens: the modifier turned a baseline of "N" (adjacent fence up to
\* 1m) into "Y".
C2_Witness ==
    /\ result = "Y"
    /\ ~SomeUniversal(request)
    /\ request.pd_removed_by_previous_planning
    /\ request.structure_type = FENCE
    /\ request.location_of_enclosure = "adjacent"
    /\ request.height_of_enclosure = "up_to_1m"

\* C3: for a gate with no universal flag and no PD removal the function
\* returns "Y" exactly when new_build_property is true, and the same call
\* with any other location and height returns the same result.
C3_Gate ==
    (/\ Returned
     /\ request.structure_type = GATE
     /\ BaselineDecides(request)) =>
        /\ result = "Y" <=> request.new_build_property
        /\ result \in { "Y", "N" }
        /\ \A l \in LocationValues, h \in HeightValues :
               Decide([request EXCEPT !.location_of_enclosure = l,
                                      !.height_of_enclosure = h]) = result

\* C3 happens: a gate on a new build returned "Y" at the lowest height, not
\* adjacent.
C3_Witness ==
    /\ result = "Y"
    /\ request.structure_type = GATE
    /\ BaselineDecides(request)
    /\ request.new_build_property
    /\ request.location_of_enclosure = "not_adjacent"
    /\ request.height_of_enclosure = "up_to_1m"

\* C4: for an adjacent fence with no universal flag and no PD removal the
\* function returns "N" exactly when the height is up_to_1m, and "Y" for
\* above_1m, up_to_2m and above_2m.
C4_AdjacentFence ==
    (/\ Returned
     /\ request.structure_type = FENCE
     /\ request.location_of_enclosure = "adjacent"
     /\ BaselineDecides(request)) =>
        /\ result = "N" <=> request.height_of_enclosure = "up_to_1m"
        /\ request.height_of_enclosure
               \in { "above_1m", "up_to_2m", "above_2m" } => result = "Y"

\* C4 happens: an adjacent fence of category up_to_2m returned "Y".
C4_Witness ==
    /\ result = "Y"
    /\ request.structure_type = FENCE
    /\ request.location_of_enclosure = "adjacent"
    /\ request.height_of_enclosure = "up_to_2m"
    /\ BaselineDecides(request)

\* C5: for a fence that is not adjacent, with no universal flag and no PD
\* removal, the function returns "Y" exactly when the height is above_2m,
\* and "N" for up_to_1m, above_1m and up_to_2m.
C5_NotAdjacentFence ==
    (/\ Returned
     /\ request.structure_type = FENCE
     /\ request.location_of_enclosure = "not_adjacent"
     /\ BaselineDecides(request)) =>
        /\ result = "Y" <=> request.height_of_enclosure = "above_2m"
        /\ request.height_of_enclosure
               \in { "up_to_1m", "above_1m", "up_to_2m" } => result = "N"

\* C5 happens: a fence away from the road of category up_to_2m returned "N".
C5_Witness ==
    /\ result = "N"
    /\ request.structure_type = FENCE
    /\ request.location_of_enclosure = "not_adjacent"
    /\ request.height_of_enclosure = "up_to_2m"
    /\ BaselineDecides(request)

\* C6: for a wall with no universal flag and no PD removal the function
\* returns "Y" exactly when the height is above_2m, and the same call with
\* the other location returns the same result.
C6_Wall ==
    (/\ Returned
     /\ request.structure_type = WALL
     /\ request.location_of_enclosure \in LocationEnum
     /\ BaselineDecides(request)) =>
        /\ result = "Y" <=> request.height_of_enclosure = "above_2m"
        /\ result \in { "Y", "N" }
        /\ \A l \in LocationEnum :
               Decide([request EXCEPT !.location_of_enclosure = l]) = result

\* C6 happens: an adjacent wall of category above_1m returned "N" (where an
\* adjacent fence would need permission).
C6_Witness ==
    /\ result = "N"
    /\ request.structure_type = WALL
    /\ request.location_of_enclosure = "adjacent"
    /\ request.height_of_enclosure = "above_1m"
    /\ BaselineDecides(request)

\* C7 as stated: for a structure_type value that is none of fence, wall or
\* gate, with no universal flag and no PD removal, the function returns "N"
\* for every location, height and new_build_property.
C7_AsStated ==
    (/\ Returned
     /\ request.structure_type \notin StructureEnum
     /\ BaselineDecides(request)) => result = "N"

\* C7 as amended: every call on str and bool arguments returns "Y" or "N",
\* and for a structure_type string whose lower-cased form is none of fence,
\* wall or gate, with no universal flag and no PD removal, it returns "N"
\* for every location, height and new_build_property.
C7_UnrecognisedStructure ==
    Returned =>
        /\ result \in { "Y", "N" }
        /\ (/\ lower(request.structure_type) \notin StructureEnum
            /\ BaselineDecides(request)) => result = "N"

\* C7 happens: "hedge" on a new build, adjacent and above 2m, returned "N".
C7_Witness ==
    /\ result = "N"
    /\ request.structure_type = << "h", "e", "d", "g", "e" >>
    /\ request.location_of_enclosure = "adjacent"
    /\ request.height_of_enclosure = "above_2m"
    /\ request.new_build_property
    /\ BaselineDecides(request)

\* The nine boolean arguments of the function.
BooleanArguments ==
    { "listed_building", "article_2_3_land", "article_2_4_land",
      "article_4_directive", "aonb", "works_affecting_tpo",
      "face_listed_building", "new_build_property",
      "pd_removed_by_previous_planning" }

\* C12: the decision is monotone in every boolean argument. When a call
\* returned "Y", the call with any single one of the nine boolean arguments
\* changed from false to true, and every other argument unchanged, returns
\* "Y" as well.
C12_MonotoneInFlags ==
    (Returned /\ result = "Y") =>
        \A f \in BooleanArguments :
            ~request[f] => Decide([request EXCEPT ![f] = TRUE]) = "Y"

\* C12 happens: a gate that is not a new build returned "Y" because PD
\* rights were removed, with new_build_property and the universal flags
\* still false.
C12_Witness ==
    /\ result = "Y"
    /\ request.structure_type = GATE
    /\ ~SomeUniversal(request)
    /\ ~request.new_build_property
    /\ request.pd_removed_by_previous_planning

\* C13: new_build_property influences the result only for gates. For a
\* structure that the code does not take as a gate (a fence, a wall, or a
\* structure it does not recognise) the call with new_build_property
\* negated, and every other argument unchanged, returns the same result.
C13_NewBuildOnlyForGates ==
    (Returned /\ lower(request.structure_type) # GATE) =>
        Decide([request EXCEPT
                  !.new_build_property = ~request.new_build_property]) = result

\* C13 happens: a wall on a new build, below 2m, with no universal flag and
\* no PD removal, returned "N".
C13_Witness ==
    /\ result = "N"
    /\ request.structure_type = WALL
    /\ request.new_build_property
    /\ request.height_of_enclosure = "up_to_2m"
    /\ BaselineDecides(request)

\* The position of a height category in the order
\* up_to_1m < above_1m < up_to_2m < above_2m.
HeightRank(h) == CHOOSE i \in 1..4 : height_choices[i] = h

\* C14: the decision is monotone in height and in adjacency. When a call
\* with a height of the four categories returned "Y", the call with any
\* later category, and every other argument unchanged, returns "Y"; and when
\* a call with location not_adjacent returned "Y", the call with location
\* adjacent, and every other argument unchanged, returns "Y".
C14_MonotoneInHeightAndAdjacency ==
    (Returned /\ result = "Y") =>
        /\ request.height_of_enclosure \in HeightEnum =>
               \A h \in HeightEnum :
                   HeightRank(h) > HeightRank(request.height_of_enclosure) =>
                       Decide([request EXCEPT !.height_of_enclosure = h]) = "Y"
        /\ request.location_of_enclosure = "not_adjacent" =>
               Decide([request EXCEPT
                         !.location_of_enclosure = "adjacent"]) = "Y"

\* C14 happens: a fence away from the road returned "Y" for above_2m only
\* because of its height, and an adjacent fence returned "Y" for above_1m.
C14_Witness ==
    /\ result = "Y"
    /\ request.structure_type = FENCE
    /\ BaselineDecides(request)
    /\ request.location_of_enclosure = "not_adjacent"
    /\ request.height_of_enclosure = "above_2m"
    /\ Decide([request EXCEPT !.height_of_enclosure = "up_to_2m"]) = "N"
    /\ Decide([request EXCEPT !.location_of_enclosure = "adjacent",
                              !.height_of_enclosure = "above_1m"]) = "Y"

-----------------------------------------------------------------------------
(* Properties of the interactive loop, checked under LoopSpec. *)

\* Some universal question was answered yes.
AnsweredUniversalYes ==
    \E f \in UniversalFields : f \in DOMAIN answers /\ answers[f]

\* The line DisplayDecision prints for the value of decision.
ResultLine == "\nResult: Planning permission required: " \o decision

ResultLines ==
    { "\nResult: Planning permission required: Y",
      "\nResult: Planning permission required: N" }

EarlyResultLine == "Result: Planning permission is required (Y)."

\* C9 as stated: in every completed run all twelve input values have been
\* collected and the function has been called exactly once.
C9_AsStated ==
    pc = "done" => (collected = FieldOrder /\ calls = 1)

\* C9 as amended: the values are collected one at a time in the order of
\* FieldOrder; the function is called at most once, and only after all
\* twelve values are collected; a result line of the function is printed
\* only after that call. A completed run in which no universal question was
\* answered yes has collected all twelve values, called the function exactly
\* once and printed its result last; a completed run in which a universal
\* question was answered yes has collected the seven universal flags only,
\* has not called the function and has printed "required (Y)".
C9_LoopOrder ==
    /\ Len(collected) <= Len(FieldOrder)
    /\ collected = SubSeq(FieldOrder, 1, Len(collected))
    /\ DOMAIN answers = { collected[i] : i \in DOMAIN collected }
    /\ gnc.state \in { "input", "returned" } =>
           gnc.prompt = FieldOrder[Len(collected) + 1]
    /\ calls \in { 0, 1 }
    /\ calls = 1 => (collected = FieldOrder /\ passed = answers)
    /\ \A i \in DOMAIN stdout :
           stdout[i] \in ResultLines =>
               /\ calls = 1
               /\ stdout[i] = ResultLine
               /\ i = Len(stdout)
    /\ pc = "done" =>
           IF AnsweredUniversalYes
           THEN /\ collected = SubSeq(FieldOrder, 1, 7)
                /\ calls = 0
                /\ stdout[Len(stdout)] = EarlyResultLine
           ELSE /\ collected = FieldOrder
                /\ calls = 1
                /\ stdout[Len(stdout)] = ResultLine

\* C9 happens: a run completed after all twelve values were collected, the
\* function was called and "N" was printed.
C9_Witness ==
    /\ pc = "done"
    /\ collected = FieldOrder
    /\ calls = 1
    /\ decision = "N"
    /\ stdout[Len(stdout)] = "\nResult: Planning permission required: N"

\* Entry e converts to a key of the dictionary valid.
ValidEntry(e, valid) == int(e).ok /\ int(e).value \in DOMAIN valid

\* C10: get_numeric_choice never returns an invalid entry. Every entry that
\* is not a number, or a number that is no key of valid_choices, is logged
\* as an error and followed by a new prompt; the value returned is a key of
\* valid_choices and is the first valid entry typed. So every structure,
\* location and height the loop passes to the function is a member of its
\* enum, and every flag is a boolean, true exactly when 1 was chosen.
C10_ValidatedInput ==
    /\ gnc.state \in { "input", "raised" } =>
           /\ \A i \in DOMAIN gnc.entries :
                  ~ValidEntry(gnc.entries[i], gnc.valid_choices)
           /\ Len(gnc.errors) = Len(gnc.entries)
           /\ gnc.prompts = Len(gnc.entries) + 1
    /\ gnc.state = "returned" =>
           /\ gnc.choice \in DOMAIN gnc.valid_choices
           /\ gnc.entries # << >>
           /\ \A i \in DOMAIN gnc.entries :
                  ValidEntry(gnc.entries[i], gnc.valid_choices)
                      <=> i = Len(gnc.entries)
           /\ int(gnc.entries[Len(gnc.entries)]).value = gnc.choice
           /\ Len(gnc.errors) = Len(gnc.entries) - 1
           /\ gnc.prompts = Len(gnc.entries)
    /\ \A i \in DOMAIN gnc.errors :
           gnc.errors[i] = IF int(gnc.entries[i]).ok
                           THEN "Invalid choice"
                           ELSE "Invalid input"
    /\ \A f \in DOMAIN answers :
           /\ choices[f] \in DOMAIN valid_choices_for(f)
           /\ f \in YesNoFields =>
                  /\ answers[f] \in BOOLEAN
                  /\ answers[f] <=> choices[f] = 1
                  /\ ~answers[f] <=> choices[f] = 2
    /\ calls > 0 =>
           /\ passed.structure_type \in StructureEnum
           /\ passed.location_of_enclosure \in LocationEnum
           /\ passed.height_of_enclosure \in HeightEnum
           /\ \A f \in YesNoFields : passed[f] \in BOOLEAN

\* C10 happens: at the height prompt the user typed a non-number, then a
\* number that is no key, then " 2 ", and get_numeric_choice returned 2.
C10_Witness ==
    /\ gnc.state = "returned"
    /\ gnc.prompt = "height_of_enclosure"
    /\ gnc.entries = << << "y" >>, << "5" >>, << " ", "2", " " >> >>
    /\ gnc.errors = << "Invalid input", "Invalid choice" >>
    /\ gnc.choice = 2

\* The outcome the loop has displayed last: "Y", "N", or None before any.
Reported ==
    IF stdout = << >> THEN None
    ELSE IF stdout[Len(stdout)] \in
                { EarlyResultLine, "\nResult: Planning permission required: Y" }
    THEN "Y"
    ELSE IF stdout[Len(stdout)] = "\nResult: Planning permission required: N"
    THEN "N"
    ELSE None

\* The run ended at the early universal check.
EndedEarly == pc = "done" /\ Len(collected) = 7

\* C11: the outcome the loop displays agrees with the decision function. A
\* completed run that asked all twelve questions reports what the function
\* returns for the twelve answers; a run that ended early because a
\* universal flag was answered yes reports "Y", which is what the function
\* returns for those seven flags with any values for the five arguments
\* that were never asked.
C11_LoopAgrees ==
    pc = "done" =>
        IF EndedEarly
        THEN /\ Reported = "Y"
             /\ \A s \in StructureValues, l \in LocationValues,
                   h \in HeightValues, nb \in BOOLEAN, pd \in BOOLEAN :
                    get_planning_permission_decision(
                        l, h, s,
                        answers.listed_building, answers.article_2_3_land,
                        answers.article_2_4_land, answers.article_4_directive,
                        answers.aonb, answers.works_affecting_tpo,
                        answers.face_listed_building, nb, pd) = "Y"
        ELSE /\ Reported \in { "Y", "N" }
             /\ Reported =
                    get_planning_permission_decision(
                        answers.location_of_enclosure,
                        answers.height_of_enclosure, answers.structure_type,
                        answers.listed_building, answers.article_2_3_land,
                        answers.article_2_4_land, answers.article_4_directive,
                        answers.aonb, answers.works_affecting_tpo,
                        answers.face_listed_building,
                        answers.new_build_property,
                        answers.pd_removed_by_previous_planning)

\* C11 happens: a run ended early, reporting "Y", after only the works
\* affecting a TPO question was answered yes.
C11_Witness ==
    /\ EndedEarly
    /\ Reported = "Y"
    /\ answers.works_affecting_tpo
    /\ \A f \in UniversalFields \ { "works_affecting_tpo" } : ~answers[f]
    /\ calls = 0

-----------------------------------------------------------------------------
(* Properties of concurrent calls, checked under CallsSpec. *)

\* C8: the function is pure. Every finished call returned "Y" or "N"; any
\* two finished calls with identical arguments returned identical results,
\* whatever calls came before or ran at the same time; and a call in
\* progress still holds the arguments its caller gave it, so no other call
\* has written to the state it reads.
C8_Pure ==
    /\ \A h \in history : h.result \in { "Y", "N" }
    /\ \A h1, h2 \in history :
           h1.request = h2.request => h1.result = h2.result
    /\ \A c \in Callers :
           at[c] # "idle" => frames[frame_of(c)].args = asked[c]

\* C8 happens: after a call with the base arguments returned "N", two calls
\* are in progress at the same time, one with the same arguments and one
\* with arguments of the opposite baseline, each holding its own baseline.
C8_Witness ==
    /\ [ request |-> BaseRequest, result |-> "N" ] \in history
    /\ at[1] = "step3"
    /\ asked[1] = BaseRequest
    /\ frames[frame_of(1)].baseline = "N"
    /\ at[2] = "step3"
    /\ asked[2] = [ BaseRequest EXCEPT !.height_of_enclosure = "above_2m" ]
    /\ frames[frame_of(2)].baseline = "Y"

=============================================================================
